---- MODULE Spec2Model ----
(***************************************************************************)
(* misc/units.py: the "run" command of the ctags units test harness, and   *)
(* its "tmain" command, which runs on the same pool of worker threads.     *)
(*                                                                         *)
(* The main thread (action_run, run_dir, join_workers) walks the          *)
(* categories, starts a pool of worker threads per category, puts one     *)
(* task per input file on the pool's queue and waits for the queue.       *)
(* Each worker (worker) takes tasks and handles them with run_tcase,      *)
(* which starts subprocesses one after the other and appends the case's   *)
(* identifier to the global result lists.  An action of a worker runs     *)
(* run_tcase from one blocking point (q.get, a subprocess.run) to the     *)
(* next; what the file system and the subprocesses answer is drawn with   *)
(* \E when the code asks for it.                                           *)
(***************************************************************************)
EXTENDS Integers, Sequences, FiniteSets, TLC

\* Bounds of the model.
MaxCases == 2
MaxWorkers == 2

\* Program constants.
_VALGRIND_EXIT == 58
_VG_TIMEOUT_FACTOR == 10

VARIABLES
    WITH_TIMEOUT,         \* --with-timeout (seconds, 0: no deadline)
    WITH_VALGRIND,        \* --with-valgrind
    NUM_WORKER_THREADS,   \* --threads
    UNITS,                \* --units, split at ","
    _FEATURE_LIST,        \* what init_features read from the subject
    tree,                 \* the test tree: per category, the input files glob finds
    main_pc,              \* where the main thread is
    cat,                  \* index of the category run_dir is working on
    mi,                   \* loop index of the main thread's current for loop
    q,                    \* q[c]: the queue of the pool of category c
    unfinished,           \* unfinished[c]: q.unfinished_tasks of that queue
    wpc,                  \* wpc[w]: where worker thread w is
    witem,                \* witem[w]: the item worker w took last
    wl,                   \* wl[w]: the locals of w's call of run_tcase
    procs,                \* the subprocesses that are running: <<worker, kind>>
    L,                    \* the result lists L_PASSED .. L_VALGRIND
    calls,                \* the items func was called with, in order
    tracebacks,           \* the items whose handling printed a traceback
    exit_status,          \* the exit status of the process, -1 while it runs
    base_filter,          \* run_filter: the output type its base_filter is of
    filtered,             \* run_filter: the lines written to foutput
    ffeatures,            \* the features file of the case directory, where the
                          \* tree holds it (else it is drawn when it is read)
    TMAIN_STATUS,         \* tmain: False once a comparison failed
    TMAIN_FAILED,         \* tmain: the failed comparisons, <<test_name, aspect>>
    tmain_dir,            \* tmain: the test directories glob finds
    tl                    \* tl[n]: the locals of the call of tmain_sub for test n

vars == <<WITH_TIMEOUT, WITH_VALGRIND, NUM_WORKER_THREADS, UNITS, _FEATURE_LIST,
          tree, main_pc, cat, mi, q, unfinished, wpc, witem, wl, procs, L,
          calls, tracebacks, exit_status, base_filter, filtered, ffeatures,
          TMAIN_STATUS, TMAIN_FAILED, tmain_dir, tl>>

config == <<WITH_TIMEOUT, WITH_VALGRIND, NUM_WORKER_THREADS, UNITS, _FEATURE_LIST,
            tree, ffeatures>>

\* The files of a call of run_filter.
files == <<base_filter, filtered>>

\* What the tmain command works on.
tmain == <<TMAIN_STATUS, TMAIN_FAILED, tmain_dir, tl>>

----------------------------------------------------------------------------
\* Domains the inputs are drawn from.

_DEFAULT_CATEGORY == "ROOT"

\* The categories in the order action_run runs them: ROOT, then the *.r
\* directories.
CategoryNames == <<_DEFAULT_CATEGORY, "sub.r">>

Cats == 1..Len(CategoryNames)

Classes == {"d", "b", "t", "i", "v"}

Names == {"n1", "n2"}

InputFiles == {"input.c", "input.h"}

\* The exit codes a subprocess is drawn to end with: success, a failure, and
\* the code valgrind is told to exit with.
ExitCodes == {0, 1, _VALGRIND_EXIT}

\* The expected.tags* file run_tcase finds first, "none" if there is none.
OutputTypes == {"none", "ctags", "etags", "xref", "json"}

ResultLists == {"L_PASSED", "L_FIXED", "L_FAILED_BY_STATUS", "L_FAILED_BY_DIFF",
                "L_SKIPPED_BY_FEATURES", "L_SKIPPED_BY_LANGUAGES",
                "L_SKIPPED_BY_ILOOP", "L_KNOWN_BUGS", "L_FAILED_BY_TIMEED_OUT",
                "L_BROKEN_ARGS_CTAGS", "L_VALGRIND"}

\* The stop sentinel of the queue.
None == [finput |-> "None", name |-> "None", tclass |-> "None", category |-> "None"]

\* The item run_dir puts for input file e of category number c.
Item(c, e) == [finput |-> e.finput, name |-> e.name, tclass |-> e.tclass,
               category |-> CategoryNames[c]]

\* category + '/' + name
Id(item) == <<item.category, item.name>>

Workers == Cats \X (1..MaxWorkers)

\* The threads create_thread_queue starts for category c.
Pool(c) == {c} \X (1..NUM_WORKER_THREADS)

\* A line of a features file: "X", "!X" or the empty line.
Req(neg, f) == [neg |-> neg, name |-> f]

EmptyLine == Req(FALSE, "")

\* The features files drawn: no file, or a file with no line, with one
\* requirement, or with an empty line before a requirement.
NoFile == [isfile |-> FALSE, lines |-> <<>>]

FeatureFiles ==
    {NoFile} \cup
    {[isfile |-> TRUE, lines |-> ls] :
        ls \in {<<>>, <<Req(FALSE, "json")>>, <<Req(TRUE, "json")>>,
                <<Req(FALSE, "yaml")>>, <<EmptyLine, Req(FALSE, "json")>>}}

\* The --units lists drawn; an entry is the list of its parts between "/".
UnitsChoices == {<<>>, <<<<"n1">>>>, <<<<"n2">>>>, <<<<"ROOT", "n1">>>>}

Count(s, x) == Cardinality({i \in DOMAIN s : s[i] = x})

InSeq(s, x) == \E i \in DOMAIN s : s[i] = x

----------------------------------------------------------------------------
\* The functions run_tcase calls.

\* check_units selecting by the name alone.
check_units_name_only(name, category) ==
    \/ Len(UNITS) = 0
    \/ \E k \in DOMAIN UNITS : UNITS[k][Len(UNITS[k])] = name

\* check_units: with no --units every case is selected; an entry with a "/"
\* selects by (category, name), an entry without by name.
check_units(name, category) ==
    \/ Len(UNITS) = 0
    \/ \E k \in DOMAIN UNITS :
          IF Len(UNITS[k]) >= 2
          THEN <<UNITS[k][1], UNITS[k][2]>> = <<category, name>>
          ELSE UNITS[k][1] = name

\* The loop of check_features over the lines from position k on.
RECURSIVE features_loop(_, _)
features_loop(features, k) ==
    IF k > Len(features) THEN [ok |-> TRUE, expected |-> EmptyLine]
    ELSE LET expected == features[k]
             found_unexpectedly == expected.neg /\ expected.name \in _FEATURE_LIST
             found == ~expected.neg /\ expected.name \in _FEATURE_LIST
         IN IF expected = EmptyLine THEN features_loop(features, k + 1)
            ELSE IF found_unexpectedly THEN [ok |-> FALSE, expected |-> expected]
            ELSE IF ~found THEN [ok |-> FALSE, expected |-> expected]
            ELSE features_loop(features, k + 1)

\* check_features(feature, ffile): feature is "" or the feature the output
\* type needs; the features file is read only when feature is "".
check_features(feature, ffile) ==
    LET features == IF feature # "" THEN <<Req(FALSE, feature)>>
                    ELSE IF ffile.isfile THEN ffile.lines
                    ELSE <<>>
    IN features_loop(features, 1)

\* output_feature as run_tcase sets it with the expected file it found.
output_feature(otype) == IF otype = "json" THEN "json" ELSE ""

\* timeout_value of run_tcase, 0 standing for None.
timeout_value ==
    IF WITH_VALGRIND THEN WITH_TIMEOUT * _VG_TIMEOUT_FACTOR ELSE WITH_TIMEOUT

----------------------------------------------------------------------------
\* run_tcase, cut at the subprocesses it waits for.  Each piece gives what
\* the worker does up to its next blocking point: the locals, the result
\* lists it appends the case to (in order), and where it blocks next: in the
\* subprocess it started, or in q.get after returning or raising.

\* The locals of run_tcase the model keeps.  feat and lang are "ok" or "fail"
\* as the gate went, and expected is the requirement check_features gave back
\* with a failure.
InitLocals == [otype |-> "-", ffilter |-> "-", broken |-> FALSE, feat |-> "-",
               expected |-> EmptyLine, lang |-> "-", ret |-> -1,
               timedout |-> FALSE, cmp |-> "-", rv |-> "-"]

Return(loc, add, rv) ==
    [pc |-> "get", loc |-> [loc EXCEPT !.rv = rv, !.ffilter = "-"], add |-> add,
     raised |-> FALSE]

Raise(loc, add) ==
    [pc |-> "get", loc |-> [loc EXCEPT !.rv = "raised", !.ffilter = "-"], add |-> add,
     raised |-> TRUE]

Spawn(loc, add, kind) ==
    [pc |-> kind, loc |-> loc, add |-> add, raised |-> FALSE]

\* The subprocesses run_tcase starts, by the place it starts them.
Kinds == {"dryrun", "probe", "listlangs", "exec", "anon", "extfilter", "diff"}

\* Lines 362-434: the expected file, the unit filter, the dry run of
\* args.ctags if there is one, else the --print-language probe.
tcase_begin(item, otype, fargs) ==
    LET loc == [InitLocals EXCEPT !.otype = otype]
    IN IF ~check_units(item.name, item.category) THEN Return(loc, <<>>, "False")
       ELSE IF fargs THEN Spawn(loc, <<>>, "dryrun")
       ELSE Spawn(loc, <<>>, "probe")

\* Lines 427-434: the dry run ended with returncode rc; the probe starts.
tcase_dryrun_done(item, loc, rc) ==
    Spawn([loc EXCEPT !.broken = (rc # 0)], <<>>, "probe")

\* tcase_gates without the infinite-loop gate.
tcase_gates_no_iloop(item, loc) ==
    IF loc.broken
    THEN Return(loc, <<"L_BROKEN_ARGS_CTAGS">>, "False")
    ELSE Spawn(loc, <<>>, "exec")

\* tcase_gates with the two gates in the other order.
tcase_gates_broken_first(item, loc) ==
    IF loc.broken
    THEN Return(loc, <<"L_BROKEN_ARGS_CTAGS">>, "False")
    ELSE IF WITH_TIMEOUT = 0 /\ item.tclass = "i"
    THEN Return(loc, <<"L_SKIPPED_BY_ILOOP">>, "False")
    ELSE Spawn(loc, <<>>, "exec")

\* Lines 462-486: the infinite-loop gate, the broken-args gate, and the start
\* of the main execution.
tcase_gates(item, loc) ==
    IF WITH_TIMEOUT = 0 /\ item.tclass = "i"
    THEN Return(loc, <<"L_SKIPPED_BY_ILOOP">>, "False")
    ELSE IF loc.broken
    THEN Return(loc, <<"L_BROKEN_ARGS_CTAGS">>, "False")
    ELSE Spawn(loc, <<>>, "exec")

\* tcase_probe_done going on after a failed feature gate.
tcase_probe_done_no_feature_gate(item, loc, raises, ffile, lfile) ==
    IF raises THEN Raise(loc, <<>>)
    ELSE LET cf == check_features(output_feature(loc.otype), ffile)
             loc1 == [loc EXCEPT !.feat = IF cf.ok THEN "ok" ELSE "fail",
                                 !.expected = cf.expected]
         IN IF lfile
            THEN Spawn(loc1, <<>>, "listlangs")
            ELSE tcase_gates(item, [loc1 EXCEPT !.lang = "ok"])

\* Lines 437-461: the probe ended; the build directory is prepared (which
\* may raise), then the feature gate, then the language gate, which starts
\* --list-languages only if the case has a languages file.
tcase_probe_done(item, loc, raises, ffile, lfile) ==
    IF raises THEN Raise(loc, <<>>)
    ELSE LET cf == check_features(output_feature(loc.otype), ffile)
         IN IF ~cf.ok
            THEN Return([loc EXCEPT !.feat = "fail", !.expected = cf.expected],
                        <<"L_SKIPPED_BY_FEATURES">>, "False")
            ELSE IF lfile
            THEN Spawn([loc EXCEPT !.feat = "ok"], <<>>, "listlangs")
            ELSE tcase_gates(item, [loc EXCEPT !.feat = "ok", !.lang = "ok"])

\* Lines 182-191, 458-461: --list-languages ended; found says whether every
\* line of the languages file is in its output.
tcase_listlangs_done(item, loc, found) ==
    IF ~found
    THEN Return([loc EXCEPT !.lang = "fail"], <<"L_SKIPPED_BY_LANGUAGES">>, "False")
    ELSE tcase_gates(item, [loc EXCEPT !.lang = "ok"])

\* tcase_final tolerating a difference for every class.
tcase_final_known_bug_for_all(item, loc) ==
    IF loc.ret = 0
    THEN Return(loc,
                (IF item.tclass = "b" THEN <<"L_FIXED">>
                 ELSE IF WITH_TIMEOUT # 0 /\ item.tclass = "i" THEN <<"L_FIXED">>
                 ELSE <<>>) \o <<"L_PASSED">>,
                "True")
    ELSE Return(loc, <<"L_KNOWN_BUGS">>, "True")

\* tcase_final recording a known-bug case that succeeded as fixed only.
tcase_final_fixed_only(item, loc) ==
    IF loc.ret = 0
    THEN Return(loc,
                IF item.tclass = "b" THEN <<"L_FIXED">>
                ELSE (IF WITH_TIMEOUT # 0 /\ item.tclass = "i" THEN <<"L_FIXED">>
                      ELSE <<>>) \o <<"L_PASSED">>,
                "True")
    ELSE IF item.tclass = "b" THEN Return(loc, <<"L_KNOWN_BUGS">>, "True")
    ELSE Return(loc, <<"L_FAILED_BY_DIFF">>, "False")

\* tcase_final without the test of the class on success.
tcase_final_passed_only(item, loc) ==
    IF loc.ret = 0
    THEN Return(loc, <<"L_PASSED">>, "True")
    ELSE IF item.tclass = "b" THEN Return(loc, <<"L_KNOWN_BUGS">>, "True")
    ELSE Return(loc, <<"L_FAILED_BY_DIFF">>, "False")

\* tcase_final without the test of the class on a difference.
tcase_final_diff_for_all(item, loc) ==
    IF loc.ret = 0
    THEN Return(loc,
                (IF item.tclass = "b" THEN <<"L_FIXED">>
                 ELSE IF WITH_TIMEOUT # 0 /\ item.tclass = "i" THEN <<"L_FIXED">>
                 ELSE <<>>) \o <<"L_PASSED">>,
                "True")
    ELSE Return(loc, <<"L_FAILED_BY_DIFF">>, "False")

\* Lines 556-576: the outcome of the comparison.
tcase_final(item, loc) ==
    IF loc.ret = 0
    THEN Return(loc,
                (IF item.tclass = "b" THEN <<"L_FIXED">>
                 ELSE IF WITH_TIMEOUT # 0 /\ item.tclass = "i" THEN <<"L_FIXED">>
                 ELSE <<>>) \o <<"L_PASSED">>,
                "True")
    ELSE IF item.tclass = "b" THEN Return(loc, <<"L_KNOWN_BUGS">>, "True")
    ELSE Return(loc, <<"L_FAILED_BY_DIFF">>, "False")

\* Lines 548-554: filecmp.cmp says the files are equal, or diff is started.
tcase_compare(item, loc, equal) ==
    IF equal THEN tcase_final(item, [loc EXCEPT !.ret = 0, !.cmp = "filecmp"])
    ELSE Spawn(loc, <<>>, "diff")

\* Lines 552-554: diff ended with returncode rc.
tcase_diff_done(item, loc, rc) ==
    tcase_final(item, [loc EXCEPT !.ret = rc, !.cmp = "diff"])

\* Lines 532-545 after the anonhash queries: the external filter is started,
\* or the internal filter runs and the comparison follows.
tcase_filter(item, loc, equal) ==
    IF loc.ffilter # "cat" THEN Spawn(loc, <<>>, "extfilter")
    ELSE tcase_compare(item, loc, equal)

\* Lines 299-308: the anonhash queries ended; an empty answer raises.
tcase_anon_done(item, loc, raises, equal) ==
    IF raises THEN Raise(loc, <<>>)
    ELSE tcase_filter(item, loc, equal)

\* Lines 541, 548-554: the external filter ended.
tcase_extfilter_done(item, loc, equal) ==
    tcase_compare(item, loc, equal)

\* tcase_exec_done with the test of the class before the test of the
\* valgrind exit code.
tcase_exec_done_bug_first(item, loc, timedout, rc, ffilter, anon, equal) ==
    IF timedout
    THEN Return([loc EXCEPT !.timedout = TRUE], <<"L_FAILED_BY_TIMEED_OUT">>, "False")
    ELSE LET loc1 == [loc EXCEPT !.ret = rc, !.ffilter = ffilter]
             fixed == IF WITH_VALGRIND /\ item.tclass = "v" THEN <<"L_FIXED">> ELSE <<>>
             cont == IF anon THEN Spawn(loc1, <<>>, "anon")
                     ELSE tcase_filter(item, loc1, equal)
         IN IF rc # 0
            THEN IF item.tclass = "b"
                 THEN Return(loc1, <<"L_KNOWN_BUGS">>, "True")
                 ELSE IF WITH_VALGRIND /\ rc = _VALGRIND_EXIT /\ item.tclass # "v"
                 THEN Return(loc1, <<"L_VALGRIND">>, "False")
                 ELSE Return(loc1, <<"L_FAILED_BY_STATUS">>, "False")
            ELSE IF loc.otype = "none"
            THEN Return(loc1,
                        fixed \o (IF item.tclass \in {"b", "i"} THEN <<"L_FIXED">>
                                  ELSE <<>>) \o <<"L_PASSED">>,
                        "True")
            ELSE [cont EXCEPT !.add = fixed \o cont.add]

\* tcase_exec_done tolerating the deadline for a known-bug case.
tcase_exec_done_timeout_tolerated(item, loc, timedout, rc, ffilter, anon, equal) ==
    IF timedout
    THEN IF item.tclass = "b"
         THEN Return([loc EXCEPT !.timedout = TRUE], <<"L_KNOWN_BUGS">>, "True")
         ELSE Return([loc EXCEPT !.timedout = TRUE], <<"L_FAILED_BY_TIMEED_OUT">>, "False")
    ELSE LET loc1 == [loc EXCEPT !.ret = rc, !.ffilter = ffilter]
             fixed == IF WITH_VALGRIND /\ item.tclass = "v" THEN <<"L_FIXED">> ELSE <<>>
             cont == IF anon THEN Spawn(loc1, <<>>, "anon")
                     ELSE tcase_filter(item, loc1, equal)
         IN IF rc # 0
            THEN IF WITH_VALGRIND /\ rc = _VALGRIND_EXIT /\ item.tclass # "v"
                 THEN Return(loc1, <<"L_VALGRIND">>, "False")
                 ELSE IF item.tclass = "b"
                 THEN Return(loc1, <<"L_KNOWN_BUGS">>, "True")
                 ELSE Return(loc1, <<"L_FAILED_BY_STATUS">>, "False")
            ELSE IF loc.otype = "none"
            THEN Return(loc1,
                        fixed \o (IF item.tclass \in {"b", "i"} THEN <<"L_FIXED">>
                                  ELSE <<>>) \o <<"L_PASSED">>,
                        "True")
            ELSE [cont EXCEPT !.add = fixed \o cont.add]

\* tcase_exec_done recording a case without expected file as fixed only if
\* it is a known-bug case.
tcase_exec_done_fixed_b_only(item, loc, timedout, rc, ffilter, anon, equal) ==
    IF timedout
    THEN Return([loc EXCEPT !.timedout = TRUE], <<"L_FAILED_BY_TIMEED_OUT">>, "False")
    ELSE LET loc1 == [loc EXCEPT !.ret = rc, !.ffilter = ffilter]
             fixed == IF WITH_VALGRIND /\ item.tclass = "v" THEN <<"L_FIXED">> ELSE <<>>
             cont == IF anon THEN Spawn(loc1, <<>>, "anon")
                     ELSE tcase_filter(item, loc1, equal)
         IN IF rc # 0
            THEN IF WITH_VALGRIND /\ rc = _VALGRIND_EXIT /\ item.tclass # "v"
                 THEN Return(loc1, <<"L_VALGRIND">>, "False")
                 ELSE IF item.tclass = "b"
                 THEN Return(loc1, <<"L_KNOWN_BUGS">>, "True")
                 ELSE Return(loc1, <<"L_FAILED_BY_STATUS">>, "False")
            ELSE IF loc.otype = "none"
            THEN Return(loc1,
                        fixed \o (IF item.tclass = "b" THEN <<"L_FIXED">>
                                  ELSE <<>>) \o <<"L_PASSED">>,
                        "True")
            ELSE [cont EXCEPT !.add = fixed \o cont.add]

\* Lines 488-545: the main execution ended, by the deadline (timedout) or
\* with returncode rc.  ffilter is "cat" unless the case has a filter program;
\* anon says whether the raw output holds an 8-hex-digit string.
tcase_exec_done(item, loc, timedout, rc, ffilter, anon, equal) ==
    IF timedout
    THEN Return([loc EXCEPT !.timedout = TRUE], <<"L_FAILED_BY_TIMEED_OUT">>, "False")
    ELSE LET loc1 == [loc EXCEPT !.ret = rc, !.ffilter = ffilter]
             fixed == IF WITH_VALGRIND /\ item.tclass = "v" THEN <<"L_FIXED">> ELSE <<>>
             cont == IF anon THEN Spawn(loc1, <<>>, "anon")
                     ELSE tcase_filter(item, loc1, equal)
         IN IF rc # 0
            THEN IF WITH_VALGRIND /\ rc = _VALGRIND_EXIT /\ item.tclass # "v"
                 THEN Return(loc1, <<"L_VALGRIND">>, "False")
                 ELSE IF item.tclass = "b"
                 THEN Return(loc1, <<"L_KNOWN_BUGS">>, "True")
                 ELSE Return(loc1, <<"L_FAILED_BY_STATUS">>, "False")
            ELSE IF loc.otype = "none"
            THEN Return(loc1,
                        fixed \o (IF item.tclass \in {"b", "i"} THEN <<"L_FIXED">>
                                  ELSE <<>>) \o <<"L_PASSED">>,
                        "True")
            ELSE [cont EXCEPT !.add = fixed \o cont.add]

----------------------------------------------------------------------------
\* The worker threads (worker).

\* The process runs: action_run has not returned and sys.exit was not called.
Alive == main_pc \notin {"done", "exited"}

\* The appends taking effect only on a list that is still empty.
Appended_if_empty(lists, add, id) ==
    [k \in ResultLists |->
        IF lists[k] = <<>> THEN [i \in 1..Count(add, k) |-> id] ELSE lists[k]]

\* "L_X = [id]" for "L_X += [id]": what the list held is lost.
Appended_overwrite(lists, add, id) ==
    [k \in ResultLists |->
        IF Count(add, k) > 0 THEN [i \in 1..Count(add, k) |-> id] ELSE lists[k]]

\* L after the appends "L_X += [id]" for the lists named in add.  On a list,
\* += extends the object in place, in one step of the interpreter, and then
\* stores the same object back in the global: an append of another thread
\* between the two is kept.
Appended(lists, add, id) ==
    [k \in ResultLists |-> lists[k] \o [i \in 1..Count(add, k) |-> id]]

\* func(*item) outside a try: an exception ends the thread, and q.task_done()
\* is not reached.
Step_raise_ends_thread(w, item, r) ==
    /\ wpc' = [wpc EXCEPT ![w] = IF r.raised THEN "stopped" ELSE r.pc]
    /\ wl' = [wl EXCEPT ![w] = r.loc]
    /\ L' = Appended(L, r.add, Id(item))
    /\ procs' = {p \in procs : p[1] # w} \cup
                (IF r.pc \in Kinds THEN {<<w, r.pc>>} ELSE {})
    /\ unfinished' = IF r.pc = "get" /\ ~r.raised
                     THEN [unfinished EXCEPT ![w[1]] = @ - 1]
                     ELSE unfinished
    /\ tracebacks' = IF r.raised THEN Append(tracebacks, item) ELSE tracebacks

\* Worker w handles item up to the blocking point r.pc.  A return or an
\* exception ends func(*item): the traceback is printed if it raised, and
\* q.task_done() follows.
Step(w, item, r) ==
    /\ wpc' = [wpc EXCEPT ![w] = r.pc]
    /\ wl' = [wl EXCEPT ![w] = r.loc]
    /\ L' = Appended(L, r.add, Id(item))
    /\ procs' = {p \in procs : p[1] # w} \cup
                (IF r.pc \in Kinds THEN {<<w, r.pc>>} ELSE {})
    /\ unfinished' = IF r.pc = "get"
                     THEN [unfinished EXCEPT ![w[1]] = @ - 1]
                     ELSE unfinished
    /\ tracebacks' = IF r.raised THEN Append(tracebacks, item) ELSE tracebacks

\* item = q.get(): the sentinel stops the worker; any other item is handed
\* to run_tcase, which runs up to its first subprocess.
W_Get(w, env) ==
    /\ Alive
    /\ wpc[w] = "get"
    /\ q[w[1]] # <<>>
    /\ LET item == Head(q[w[1]])
       IN /\ q' = [q EXCEPT ![w[1]] = Tail(@)]
          /\ witem' = [witem EXCEPT ![w] = item]
          /\ IF item = None
             THEN /\ wpc' = [wpc EXCEPT ![w] = "stopped"]
                  /\ wl' = [wl EXCEPT ![w] = InitLocals]
                  /\ UNCHANGED <<L, procs, unfinished, tracebacks, calls>>
             ELSE /\ calls' = Append(calls, item)
                  /\ \E otype \in env.otypes, fargs \in env.fargs :
                        Step(w, item, tcase_begin(item, otype, fargs))
    /\ UNCHANGED <<config, files, tmain, main_pc, cat, mi, exit_status>>

W_DryRunDone(w) ==
    /\ Alive
    /\ wpc[w] = "dryrun"
    /\ \E rc \in ExitCodes : Step(w, witem[w], tcase_dryrun_done(witem[w], wl[w], rc))
    /\ UNCHANGED <<config, files, tmain, main_pc, cat, mi, q, witem, calls, exit_status>>

W_ProbeDone(w, env) ==
    /\ Alive
    /\ wpc[w] = "probe"
    /\ \E raises \in BOOLEAN, ffile \in env.ffiles, lfile \in env.lfiles :
          Step(w, witem[w], tcase_probe_done(witem[w], wl[w], raises, ffile, lfile))
    /\ UNCHANGED <<config, files, tmain, main_pc, cat, mi, q, witem, calls, exit_status>>

W_ListLangsDone(w) ==
    /\ Alive
    /\ wpc[w] = "listlangs"
    /\ \E found \in BOOLEAN :
          Step(w, witem[w], tcase_listlangs_done(witem[w], wl[w], found))
    /\ UNCHANGED <<config, files, tmain, main_pc, cat, mi, q, witem, calls, exit_status>>

\* subprocess.run returns, or raises TimeoutExpired if a deadline is set.
W_ExecDone(w, env) ==
    /\ Alive
    /\ wpc[w] = "exec"
    /\ \E timedout \in (IF timeout_value # 0 THEN BOOLEAN ELSE {FALSE}),
          rc \in ExitCodes, ffilter \in env.ffilters,
          anon \in env.anons, equal \in BOOLEAN :
          Step(w, witem[w],
               tcase_exec_done(witem[w], wl[w], timedout, rc, ffilter, anon, equal))
    /\ UNCHANGED <<config, files, tmain, main_pc, cat, mi, q, witem, calls, exit_status>>

W_AnonDone(w) ==
    /\ Alive
    /\ wpc[w] = "anon"
    /\ \E raises \in BOOLEAN, equal \in BOOLEAN :
          Step(w, witem[w], tcase_anon_done(witem[w], wl[w], raises, equal))
    /\ UNCHANGED <<config, files, tmain, main_pc, cat, mi, q, witem, calls, exit_status>>

W_ExtFilterDone(w) ==
    /\ Alive
    /\ wpc[w] = "extfilter"
    /\ \E equal \in BOOLEAN :
          Step(w, witem[w], tcase_extfilter_done(witem[w], wl[w], equal))
    /\ UNCHANGED <<config, files, tmain, main_pc, cat, mi, q, witem, calls, exit_status>>

\* diff ends with 0 (no difference but in the lines it ignores) or 1.
W_DiffDone(w) ==
    /\ Alive
    /\ wpc[w] = "diff"
    /\ \E rc \in {0, 1} : Step(w, witem[w], tcase_diff_done(witem[w], wl[w], rc))
    /\ UNCHANGED <<config, files, tmain, main_pc, cat, mi, q, witem, calls, exit_status>>

----------------------------------------------------------------------------
\* The main thread (action_run, run_dir, create_thread_queue, join_workers).

\* The --categories filter leaves the category out (action_run line 811,
\* run_dir line 632): no pool is created for it.
M_SkipDir ==
    /\ main_pc = "run_dir"
    /\ cat <= Len(CategoryNames)
    /\ cat' = cat + 1
    /\ UNCHANGED <<config, files, tmain, main_pc, mi, q, unfinished, wpc, witem, wl, procs, L,
                   calls, tracebacks, exit_status>>

\* run_dir calls create_thread_queue: a new queue, and NUM_WORKER_THREADS
\* threads started on it.
create_thread_queue ==
    /\ q' = [q EXCEPT ![cat] = <<>>]
    /\ unfinished' = [unfinished EXCEPT ![cat] = 0]
    /\ wpc' = [w \in Workers |-> IF w \in Pool(cat) THEN "get" ELSE wpc[w]]

M_RunDir ==
    /\ main_pc = "run_dir"
    /\ cat <= Len(CategoryNames)
    /\ create_thread_queue
    /\ main_pc' = IF Len(tree[cat]) = 0 THEN "join" ELSE "put"
    /\ mi' = 1
    /\ UNCHANGED <<config, files, tmain, cat, witem, wl, procs, L, calls, tracebacks, exit_status>>

\* The loop of run_dir over the input files: q.put of one item.
M_Put ==
    /\ main_pc = "put"
    /\ q' = [q EXCEPT ![cat] = Append(@, Item(cat, tree[cat][mi]))]
    /\ unfinished' = [unfinished EXCEPT ![cat] = @ + 1]
    /\ IF mi = Len(tree[cat])
       THEN main_pc' = "join" /\ mi' = 1
       ELSE main_pc' = "put" /\ mi' = mi + 1
    /\ UNCHANGED <<config, files, tmain, cat, wpc, witem, wl, procs, L, calls, tracebacks,
                   exit_status>>

\* q.join() taken to return as soon as the queue is empty.
M_QJoin_empty_queue ==
    /\ main_pc = "join"
    /\ q[cat] = <<>>
    /\ main_pc' = "stop"
    /\ mi' = 1
    /\ UNCHANGED <<config, files, tmain, cat, q, unfinished, wpc, witem, wl, procs, L, calls,
                   tracebacks, exit_status>>

\* join_workers: q.join() returns when every item put was marked done.
M_QJoin ==
    /\ main_pc = "join"
    /\ unfinished[cat] = 0
    /\ main_pc' = "stop"
    /\ mi' = 1
    /\ UNCHANGED <<config, files, tmain, cat, q, unfinished, wpc, witem, wl, procs, L, calls,
                   tracebacks, exit_status>>

\* A single q.put(None) in place of the loop.
put_sentinel_single(next) ==
    /\ q' = [q EXCEPT ![cat] = Append(@, None)]
    /\ unfinished' = [unfinished EXCEPT ![cat] = @ + 1]
    /\ main_pc' = next
    /\ mi' = 1

\* One q.put(None) of a loop "for i in range(NUM_WORKER_THREADS)".
put_sentinel(next) ==
    /\ q' = [q EXCEPT ![cat] = Append(@, None)]
    /\ unfinished' = [unfinished EXCEPT ![cat] = @ + 1]
    /\ IF mi = NUM_WORKER_THREADS
       THEN main_pc' = next /\ mi' = 1
       ELSE UNCHANGED main_pc /\ mi' = mi + 1

\* join_workers, lines 619-620.
M_Stop ==
    /\ main_pc = "stop"
    /\ put_sentinel("jointhreads")
    /\ UNCHANGED <<config, files, tmain, cat, wpc, witem, wl, procs, L, calls, tracebacks,
                   exit_status>>

\* The loop over the threads without the wait for each thread.
M_ThreadJoin_nowait ==
    /\ main_pc = "jointhreads"
    /\ IF mi = NUM_WORKER_THREADS
       THEN main_pc' = "run_dir" /\ cat' = cat + 1 /\ mi' = 1
       ELSE UNCHANGED <<main_pc, cat>> /\ mi' = mi + 1
    /\ UNCHANGED <<config, files, tmain, q, unfinished, wpc, witem, wl, procs, L, calls,
                   tracebacks, exit_status>>

\* join_workers, lines 621-622: t.join() returns when thread t has ended;
\* after the last one run_dir returns.
M_ThreadJoin ==
    /\ main_pc = "jointhreads"
    /\ wpc[<<cat, mi>>] = "stopped"
    /\ IF mi = NUM_WORKER_THREADS
       THEN main_pc' = "run_dir" /\ cat' = cat + 1 /\ mi' = 1
       ELSE UNCHANGED <<main_pc, cat>> /\ mi' = mi + 1
    /\ UNCHANGED <<config, files, tmain, q, unfinished, wpc, witem, wl, procs, L, calls,
                   tracebacks, exit_status>>

\* remove_prefix(t, _DEFAULT_CATEGORY + '/') on an identifier: the name alone
\* for a case of the default category.
remove_prefix(id) == IF id[1] = _DEFAULT_CATEGORY THEN <<id[2]>> ELSE id

\* The lists run_summary prints the members of; of L_PASSED it prints the
\* length only.
ListedKinds ==
    {"L_FIXED", "L_BROKEN_ARGS_CTAGS", "L_FAILED_BY_STATUS", "L_FAILED_BY_DIFF",
     "L_SKIPPED_BY_FEATURES", "L_SKIPPED_BY_LANGUAGES", "L_KNOWN_BUGS"}
    \cup (IF WITH_TIMEOUT # 0 THEN {"L_FAILED_BY_TIMEED_OUT"} ELSE {"L_SKIPPED_BY_ILOOP"})
    \cup (IF WITH_VALGRIND THEN {"L_VALGRIND"} ELSE {})

\* What run_summary prints: the number of passed cases and, for each kind it
\* lists, the members of the list in the order the list holds them.
run_summary ==
    [passed |-> Len(L["L_PASSED"]),
     listed |-> [k \in ListedKinds |->
                    [i \in DOMAIN L[k] |-> remove_prefix(L[k][i])]]]

\* The verdict without the broken-args list.
action_run_verdict_no_broken ==
    IF \/ L["L_FAILED_BY_STATUS"] # <<>>
       \/ L["L_FAILED_BY_DIFF"] # <<>>
       \/ L["L_FAILED_BY_TIMEED_OUT"] # <<>>
    THEN 1
    ELSE 0

\* The verdict of action_run, lines 824-828.
action_run_verdict ==
    IF \/ L["L_FAILED_BY_STATUS"] # <<>>
       \/ L["L_FAILED_BY_DIFF"] # <<>>
       \/ L["L_FAILED_BY_TIMEED_OUT"] # <<>>
       \/ L["L_BROKEN_ARGS_CTAGS"] # <<>>
    THEN 1
    ELSE 0

\* After the last category: run_summary, and action_run returns its verdict,
\* which main hands to sys.exit.
M_Return ==
    /\ main_pc = "run_dir"
    /\ cat > Len(CategoryNames)
    /\ main_pc' = "done"
    /\ exit_status' = action_run_verdict
    /\ UNCHANGED <<config, files, tmain, cat, mi, q, unfinished, wpc, witem, wl, procs, L, calls,
                   tracebacks>>

\* KeyboardInterrupt raised in q.join(): the except clause of join_workers.
M_Interrupt ==
    /\ main_pc = "join"
    /\ main_pc' = "drain"
    /\ UNCHANGED <<config, files, tmain, cat, mi, q, unfinished, wpc, witem, wl, procs, L, calls,
                   tracebacks, exit_status>>

\* Lines 605-609: q.get_nowait() takes an item, or raises queue.Empty, which
\* ends the loop.
M_Drain ==
    /\ main_pc = "drain"
    /\ IF q[cat] # <<>>
       THEN q' = [q EXCEPT ![cat] = Tail(@)] /\ UNCHANGED <<main_pc, mi>>
       ELSE main_pc' = "int_stop" /\ mi' = 1 /\ UNCHANGED q
    /\ UNCHANGED <<config, files, tmain, cat, unfinished, wpc, witem, wl, procs, L, calls,
                   tracebacks, exit_status>>

\* Lines 611-612.
M_IntStop ==
    /\ main_pc = "int_stop"
    /\ put_sentinel("int_join")
    /\ UNCHANGED <<config, files, tmain, cat, wpc, witem, wl, procs, L, calls, tracebacks,
                   exit_status>>

\* t.join() without the timeout.
M_IntJoin_blocking ==
    /\ main_pc = "int_join"
    /\ wpc[<<cat, mi>>] = "stopped"
    /\ IF mi = NUM_WORKER_THREADS
       THEN main_pc' = "int_exit" /\ mi' = 1
       ELSE UNCHANGED main_pc /\ mi' = mi + 1
    /\ UNCHANGED <<config, files, tmain, cat, q, unfinished, wpc, witem, wl, procs, L, calls,
                   tracebacks, exit_status>>

\* Lines 613-614: t.join(timeout=2) returns when the thread has ended or the
\* two seconds are over, whichever is first.
M_IntJoin ==
    /\ main_pc = "int_join"
    /\ IF mi = NUM_WORKER_THREADS
       THEN main_pc' = "int_exit" /\ mi' = 1
       ELSE UNCHANGED main_pc /\ mi' = mi + 1
    /\ UNCHANGED <<config, files, tmain, cat, q, unfinished, wpc, witem, wl, procs, L, calls,
                   tracebacks, exit_status>>

\* Line 616: sys.exit(1).  The workers are daemon threads: they end with the
\* process; the subprocesses they wait for are not touched.
M_Exit ==
    /\ main_pc = "int_exit"
    /\ main_pc' = "exited"
    /\ exit_status' = 1
    /\ UNCHANGED <<config, files, tmain, cat, mi, q, unfinished, wpc, witem, wl, procs, L, calls,
                   tracebacks>>

\* KeyboardInterrupt raised in the main thread outside the try of
\* join_workers: nothing catches it and the process ends, with status 1 or
\* killed by SIGINT (130) depending on the Python version.
M_Uncaught ==
    /\ main_pc \in {"put", "stop", "jointhreads", "drain", "int_stop", "int_join"}
    /\ main_pc' = "exited"
    /\ \E st \in {1, 130} : exit_status' = st
    /\ UNCHANGED <<config, files, tmain, cat, mi, q, unfinished, wpc, witem, wl, procs, L, calls,
                   tracebacks>>

----------------------------------------------------------------------------
\* The "tmain" command (action_tmain, tmain_run, tmain_sub, tmain_compare).
\* It runs on the same pool as "run": create_thread_queue(tmain_sub), worker
\* and join_workers.

CODE_FOR_IGNORING_THIS_TMAIN_TEST == 77

\* The aspects in the order tmain_sub compares them.
Aspects == <<"stdout", "stderr", "exit", "tags">>

\* The sets of *-expected.txt files a test directory is drawn with.
ExpectedChoices == {{}, {"stdout"}, {"exit", "tags"}}

\* The exit codes run.sh is drawn to end with.
TmainExitCodes == {0, 1, CODE_FOR_IGNORING_THIS_TMAIN_TEST}

\* The subprocesses tmain_sub waits for: run.sh, and the diff of
\* tmain_compare.
TmainKinds == {"runsh", "tdiff"}

\* The item tmain_run puts for the test directory d: (test_name, basedir,
\* subdir, build_subdir), in the shape of the items of run_dir.
TItem(d) == [finput |-> "run.sh", name |-> d.name, tclass |-> "d",
             category |-> "tmain"]

\* The aspects that have a file subdir/<aspect>-expected.txt.
expected_txt(name) ==
    (CHOOSE d \in {tmain_dir[i] : i \in DOMAIN tmain_dir} : d.name = name).expected

\* The locals of tmain_sub the model keeps: the returncode of run.sh (-1
\* before it ended), whether run.sh left a tags file, the aspects whose actual
\* file equals the expected one, the index of the aspect whose diff runs, and
\* how the call ended.
TInitLocals == [rc |-> -1, tags |-> FALSE, same |-> {}, i |-> 0, rv |-> "-"]

\* No tmain command runs.
TmainIdle ==
    /\ TMAIN_STATUS = TRUE
    /\ TMAIN_FAILED = <<>>
    /\ tmain_dir = <<>>
    /\ tl = [n \in Names |-> TInitLocals]

\* Lines 849-850 of tmain_compare: the actual file and the expected file are
\* there and filecmp.cmp finds them equal.  The actual files of stdout,
\* stderr and exit are written by tmain_sub; tags-actual.txt is the tags file
\* of run.sh, if it left one.
tmain_compare(loc, aspect) ==
    /\ aspect = "tags" => loc.tags
    /\ aspect \in loc.same

\* Lines 942-964: the loop over the aspects from index i on, up to the next
\* diff it has to wait for or to the return.  failed holds the aspects the
\* step adds to TMAIN_FAILED.
RECURSIVE tmain_aspects(_, _, _, _)
tmain_aspects(name, loc, i, failed) ==
    IF i > Len(Aspects)
    THEN [pc |-> "get", loc |-> [loc EXCEPT !.i = 0, !.rv = "True"],
          failed |-> failed, raised |-> FALSE]
    ELSE IF Aspects[i] \in expected_txt(name) /\ ~tmain_compare(loc, Aspects[i])
    THEN [pc |-> "tdiff", loc |-> [loc EXCEPT !.i = i], failed |-> failed,
          raised |-> FALSE]
    ELSE tmain_aspects(name, loc, i + 1, failed)

\* Lines 888-912: the build directory is made and run.sh started.
tmain_begin ==
    [pc |-> "runsh", loc |-> TInitLocals, failed |-> <<>>, raised |-> FALSE]

\* Lines 914-942: run.sh ended with returncode rc.  Decoding its stderr as
\* UTF-8 raises if it is not; code 77 makes tmain_sub return before any
\* actual file is written; else the actual files are written and the
\* aspects compared.
tmain_run_done(name, loc, raises, rc, tags, same) ==
    IF raises
    THEN [pc |-> "get", loc |-> [loc EXCEPT !.rc = rc, !.rv = "raised"],
          failed |-> <<>>, raised |-> TRUE]
    ELSE IF rc = CODE_FOR_IGNORING_THIS_TMAIN_TEST
    THEN [pc |-> "get", loc |-> [loc EXCEPT !.rc = rc, !.rv = "True"],
          failed |-> <<>>, raised |-> FALSE]
    ELSE tmain_aspects(name, [loc EXCEPT !.rc = rc, !.tags = tags, !.same = same],
                       1, <<>>)

\* Lines 854-859, 948-951: the diff of tmain_compare ended; the comparison
\* is recorded as failed and the loop goes on.
tmain_diff_done(name, loc) ==
    tmain_aspects(name, loc, loc.i + 1, <<Aspects[loc.i]>>)

\* Worker w handles item up to the blocking point r.pc, as Step does for
\* run_tcase.
TStep(w, item, r) ==
    /\ wpc' = [wpc EXCEPT ![w] = r.pc]
    /\ tl' = [tl EXCEPT ![item.name] = r.loc]
    /\ TMAIN_FAILED' = TMAIN_FAILED \o [i \in DOMAIN r.failed |-> <<item.name, r.failed[i]>>]
    /\ TMAIN_STATUS' = IF r.failed # <<>> THEN FALSE ELSE TMAIN_STATUS
    /\ procs' = {p \in procs : p[1] # w} \cup
                (IF r.pc \in TmainKinds THEN {<<w, r.pc>>} ELSE {})
    /\ unfinished' = IF r.pc = "get"
                     THEN [unfinished EXCEPT ![w[1]] = @ - 1]
                     ELSE unfinished
    /\ tracebacks' = IF r.raised THEN Append(tracebacks, item) ELSE tracebacks

\* item = q.get() of a worker started with tmain_sub.
TW_Get(w) ==
    /\ Alive
    /\ wpc[w] = "get"
    /\ q[w[1]] # <<>>
    /\ LET item == Head(q[w[1]])
       IN /\ q' = [q EXCEPT ![w[1]] = Tail(@)]
          /\ witem' = [witem EXCEPT ![w] = item]
          /\ IF item = None
             THEN /\ wpc' = [wpc EXCEPT ![w] = "stopped"]
                  /\ UNCHANGED <<TMAIN_STATUS, TMAIN_FAILED, tl, procs, unfinished,
                                 tracebacks, calls>>
             ELSE /\ calls' = Append(calls, item)
                  /\ TStep(w, item, tmain_begin)
    /\ UNCHANGED <<config, files, tmain_dir, main_pc, cat, mi, wl, L, exit_status>>

\* run.sh ended.  Whether it left a tags file and which actual files equal
\* the expected ones matters for the aspects that have an expected file.
TW_RunDone(w) ==
    /\ Alive
    /\ wpc[w] = "runsh"
    /\ LET name == witem[w].name
       IN \E raises \in BOOLEAN, rc \in TmainExitCodes,
             tags \in (IF "tags" \in expected_txt(name) THEN BOOLEAN ELSE {FALSE}),
             same \in SUBSET expected_txt(name) :
             TStep(w, witem[w], tmain_run_done(name, tl[name], raises, rc, tags, same))
    /\ UNCHANGED <<config, files, tmain_dir, main_pc, cat, mi, q, witem, wl, L, calls,
                   exit_status>>

TW_DiffDone(w) ==
    /\ Alive
    /\ wpc[w] = "tdiff"
    /\ TStep(w, witem[w], tmain_diff_done(witem[w].name, tl[witem[w].name]))
    /\ UNCHANGED <<config, files, tmain_dir, main_pc, cat, mi, q, witem, wl, L, calls,
                   exit_status>>

\* tmain_run, lines 969-971.
TM_Run ==
    /\ main_pc = "tmain_run"
    /\ TMAIN_STATUS' = TRUE
    /\ create_thread_queue
    /\ main_pc' = IF Len(tmain_dir) = 0 THEN "tjoin" ELSE "tput"
    /\ mi' = 1
    /\ UNCHANGED <<config, files, TMAIN_FAILED, tmain_dir, tl, cat, witem, wl, procs, L,
                   calls, tracebacks, exit_status>>

\* The loop of tmain_run over the test directories, lines 974-981: a test
\* that --units does not name is left out.
TM_Put ==
    /\ main_pc = "tput"
    /\ LET d == tmain_dir[mi]
       IN IF Len(UNITS) > 0 /\ ~InSeq(UNITS, <<d.name>>)
          THEN UNCHANGED <<q, unfinished>>
          ELSE /\ q' = [q EXCEPT ![cat] = Append(@, TItem(d))]
               /\ unfinished' = [unfinished EXCEPT ![cat] = @ + 1]
    /\ IF mi = Len(tmain_dir)
       THEN main_pc' = "tjoin" /\ mi' = 1
       ELSE main_pc' = "tput" /\ mi' = mi + 1
    /\ UNCHANGED <<config, files, tmain, cat, wpc, witem, wl, procs, L, calls,
                   tracebacks, exit_status>>

\* join_workers called by tmain_run: q.join().
TM_QJoin ==
    /\ main_pc = "tjoin"
    /\ unfinished[cat] = 0
    /\ main_pc' = "tstop"
    /\ mi' = 1
    /\ UNCHANGED <<config, files, tmain, cat, q, unfinished, wpc, witem, wl, procs, L,
                   calls, tracebacks, exit_status>>

\* join_workers, lines 619-620.
TM_Stop ==
    /\ main_pc = "tstop"
    /\ put_sentinel("tjointhreads")
    /\ UNCHANGED <<config, files, tmain, cat, wpc, witem, wl, procs, L, calls,
                   tracebacks, exit_status>>

\* What action_tmain returns, lines 1041-1045.
action_tmain_verdict == IF TMAIN_STATUS THEN 0 ELSE 1

\* join_workers, lines 621-622; after the last thread tmain_run returns
\* TMAIN_STATUS and action_tmain its verdict, which main hands to sys.exit.
TM_ThreadJoin ==
    /\ main_pc = "tjointhreads"
    /\ wpc[<<cat, mi>>] = "stopped"
    /\ IF mi = NUM_WORKER_THREADS
       THEN main_pc' = "done" /\ mi' = 1 /\ exit_status' = action_tmain_verdict
       ELSE UNCHANGED <<main_pc, exit_status>> /\ mi' = mi + 1
    /\ UNCHANGED <<config, files, tmain, cat, q, unfinished, wpc, witem, wl, procs, L,
                   calls, tracebacks>>

----------------------------------------------------------------------------
\* The initial states: the command line, the subject's features and the
\* test tree are the inputs of a run.

SeqsUpTo(S, n) == UNION {[1..k -> S] : k \in 0..n}

Distinct(s) == \A i, j \in DOMAIN s : s[i] = s[j] => i = j

SumLen(t) == Len(t[1]) + Len(t[2])

\* The trees of at most n input files in all, in the categories cats, with
\* names, classes and input file names from the given sets.  glob gives each
\* path once.
Trees(names, classes, inputs, cats, n) ==
    LET E == [finput : inputs, name : names, tclass : classes]
    IN {t \in [Cats -> SeqsUpTo(E, n)] :
          /\ SumLen(t) <= n
          /\ \A c \in Cats : Distinct(t[c]) /\ (c \notin cats => t[c] = <<>>)}

RunInit(threads, timeouts, valgrinds, units, features, trees) ==
    /\ NUM_WORKER_THREADS \in threads
    /\ WITH_TIMEOUT \in timeouts
    /\ WITH_VALGRIND \in valgrinds
    /\ UNITS \in units
    /\ _FEATURE_LIST \in features
    /\ tree \in trees
    /\ main_pc = "run_dir"
    /\ cat = 1
    /\ mi = 1
    /\ q = [c \in Cats |-> <<>>]
    /\ unfinished = [c \in Cats |-> 0]
    /\ wpc = [w \in Workers |-> "unborn"]
    /\ witem = [w \in Workers |-> None]
    /\ wl = [w \in Workers |-> InitLocals]
    /\ procs = {}
    /\ L = [k \in ResultLists |-> <<>>]
    /\ calls = <<>>
    /\ tracebacks = <<>>
    /\ exit_status = -1

\* A run seen from its threads: what run_filter reads and writes is left out,
\* and filecmp's answer drawn.
InitWith(threads, timeouts, valgrinds, units, features, trees) ==
    /\ RunInit(threads, timeouts, valgrinds, units, features, trees)
    /\ base_filter = "-"
    /\ filtered = <<>>
    /\ ffeatures = NoFile
    /\ TmainIdle

\* One worker and cases of every class: a tree of one case, in either
\* category, under every setting of the options, and the trees of up to
\* MaxCases cases in ROOT under every setting of --with-timeout and
\* --with-valgrind.
Init ==
    \/ InitWith({1}, {0, 5}, BOOLEAN, UnitsChoices, {{}, {"json"}},
                Trees({"n1"}, Classes, {"input.c"}, Cats, 1))
    \/ InitWith({1}, {0, 5}, BOOLEAN, {<<>>}, {{"json"}},
                Trees({"n1"}, Classes, {"input.c"}, {1}, MaxCases))

\* Up to MaxWorkers workers on cases of the normal class.
PoolInit ==
    InitWith(1..MaxWorkers, {0}, {FALSE}, {<<>>}, {{"json"}},
             Trees(Names, {"d"}, InputFiles, Cats, MaxCases))

\* Two cases of different names in the default category, of the classes d, b
\* and v, handled by two workers under a deadline and valgrind.
PairTrees ==
    {t \in Trees(Names, {"d", "b", "v"}, {"input.c"}, {1}, MaxCases) :
        /\ Len(t[1]) = 2
        /\ t[1][1].name = "n1" /\ t[1][2].name = "n2"}

PairInit == InitWith({2}, {5}, {TRUE}, {<<>>}, {{"json"}}, PairTrees)

\* The main thread in a run that no interrupt cancels.
MainStep ==
    \/ M_SkipDir \/ M_RunDir \/ M_Put \/ M_QJoin \/ M_Stop \/ M_ThreadJoin
    \/ M_Return

\* The main thread when an interrupt arrives.
CancelStep ==
    \/ M_Interrupt \/ M_Drain \/ M_IntStop \/ M_IntJoin \/ M_Exit \/ M_Uncaught

WorkerStep(w, env) ==
    \/ W_Get(w, env) \/ W_DryRunDone(w) \/ W_ProbeDone(w, env)
    \/ W_ListLangsDone(w) \/ W_ExecDone(w, env) \/ W_AnonDone(w)
    \/ W_ExtFilterDone(w) \/ W_DiffDone(w)

\* What a case directory may hold besides its input: any expected.tags*
\* file or none, args.ctags, a features file, a languages file, a filter
\* program; and whether the raw output needs the anonhash queries.
AnyCase == [otypes |-> OutputTypes, fargs |-> BOOLEAN, ffiles |-> FeatureFiles,
            lfiles |-> BOOLEAN, ffilters |-> {"cat", "filter"}, anons |-> BOOLEAN]

\* Case directories of the plainest kind: an input and expected.tags.  Such a
\* case starts the probe, the main execution and, if the output differs, diff.
PlainCase == [otypes |-> {"ctags"}, fargs |-> {FALSE},
             ffiles |-> {[isfile |-> FALSE, lines |-> <<>>]},
             lfiles |-> {FALSE}, ffilters |-> {"cat"}, anons |-> {FALSE}]

PlainWorkerStep(w) ==
    \/ W_Get(w, PlainCase) \/ W_ProbeDone(w, PlainCase) \/ W_ExecDone(w, PlainCase)
    \/ W_DiffDone(w)

Next == MainStep \/ \E w \in Workers : WorkerStep(w, AnyCase)

PoolNext == MainStep \/ CancelStep \/ \E w \in Workers : PlainWorkerStep(w)

Spec == Init /\ [][Next]_vars

PoolSpec == PoolInit /\ [][PoolNext]_vars

PairSpec == PairInit /\ [][Next]_vars

\* Once in the except clause of join_workers the main thread never blocks:
\* get_nowait, put on an unbounded queue, join with a timeout and sys.exit
\* all return, so the scheduler lets it go on.  Nothing is assumed of the
\* workers or of the subprocesses.
FairPoolSpec ==
    PoolSpec /\ WF_vars(M_Drain \/ M_IntStop \/ M_IntJoin \/ M_Exit)

\* One case whose directory holds the features file ffeatures, handled by
\* one worker: check_features reads that file.
GateInit ==
    /\ RunInit({1}, {0, 5}, BOOLEAN, {<<>>}, {{}, {"json"}},
               {t \in Trees({"n1"}, Classes, {"input.c"}, {1}, 1) : Len(t[1]) = 1})
    /\ base_filter = "-"
    /\ filtered = <<>>
    /\ ffeatures \in FeatureFiles
    /\ TmainIdle

GateCase == [AnyCase EXCEPT !.ffiles = {ffeatures}]

GateNext == MainStep \/ \E w \in Workers : WorkerStep(w, GateCase)

GateSpec == GateInit /\ [][GateNext]_vars

\* The tmain command on up to MaxCases tests, with one or two workers and
\* with or without --units.
TmainTrees ==
    {t \in SeqsUpTo([name : Names, expected : ExpectedChoices], MaxCases) :
        \A i, j \in DOMAIN t : t[i].name = t[j].name => i = j}

TmainInit ==
    /\ NUM_WORKER_THREADS \in 1..MaxWorkers
    /\ WITH_TIMEOUT = 0
    /\ WITH_VALGRIND = FALSE
    /\ UNITS \in {<<>>, <<<<"n1">>>>}
    /\ _FEATURE_LIST = {}
    /\ tree = [c \in Cats |-> <<>>]
    /\ ffeatures = NoFile
    /\ main_pc = "tmain_run"
    /\ cat = 1
    /\ mi = 1
    /\ q = [c \in Cats |-> <<>>]
    /\ unfinished = [c \in Cats |-> 0]
    /\ wpc = [w \in Workers |-> "unborn"]
    /\ witem = [w \in Workers |-> None]
    /\ wl = [w \in Workers |-> InitLocals]
    /\ procs = {}
    /\ L = [k \in ResultLists |-> <<>>]
    /\ calls = <<>>
    /\ tracebacks = <<>>
    /\ exit_status = -1
    /\ base_filter = "-"
    /\ filtered = <<>>
    /\ TMAIN_STATUS = TRUE
    /\ TMAIN_FAILED = <<>>
    /\ tmain_dir \in TmainTrees
    /\ tl = [n \in Names |-> TInitLocals]

TmainNext ==
    \/ TM_Run \/ TM_Put \/ TM_QJoin \/ TM_Stop \/ TM_ThreadJoin
    \/ \E w \in Workers : TW_Get(w) \/ TW_RunDone(w) \/ TW_DiffDone(w)

TmainSpec == TmainInit /\ [][TmainNext]_vars

\* A run that no interrupt cancels.
RunNext == MainStep \/ \E w \in Workers : PlainWorkerStep(w)

\* Every subprocess ends and every thread that can go on is scheduled: the
\* main thread when the call it is in can return (q.join once every task is
\* done, t.join once the thread has ended), a worker when its q.get has an
\* item to give or the subprocess it waits for has ended.
FairRunSpec ==
    /\ PoolInit /\ [][RunNext]_vars
    /\ WF_vars(MainStep)
    /\ \A w \in Workers : WF_vars(PlainWorkerStep(w))

----------------------------------------------------------------------------
\* basename_filter and run_filter.  A line is the sequence of its characters
\* without the newline that ends it; "path" and ": " stand for these runs of
\* characters, which the lines drawn hold as a whole only.

MaxPieces == 5
MaxLines == 2

TAB == "\t"

Quote == "\""

Digits == {"1"}

Max(S) == CHOOSE x \in S : \A y \in S : y <= x

Min(S) == CHOOSE x \in S : \A y \in S : x <= y

\* Where ([^/\t]+/)* ends when it starts at position p of l.
RECURSIVE skip_dirs(_, _)
skip_dirs(l, p) ==
    LET ends == {e \in (p + 1)..Len(l) :
                    /\ l[e] = "/"
                    /\ \A i \in p..(e - 1) : l[i] \notin {"/", TAB}}
    IN IF ends = {} THEN p ELSE skip_dirs(l, Min(ends) + 1)

\* re.sub(r'(^[^\t]+\t)(/?([^/\t]+/)*)', r'\1', l, 1)
sub_ctags(l) ==
    LET tabs == {i \in DOMAIN l : l[i] = TAB}
    IN IF tabs = {} \/ Min(tabs) = 1 THEN l
       ELSE LET t == Min(tabs)
                p == IF t < Len(l) /\ l[t + 1] = "/" THEN t + 2 ELSE t + 1
            IN SubSeq(l, 1, t) \o SubSeq(l, skip_dirs(l, p), Len(l))

\* re.sub(r'.*/(\S+),([0-9]+$)', r'\1,\2', l, 1): .* takes the last "/" that
\* the rest of the pattern can follow.
sub_etags(l) ==
    LET n == Len(l)
        S == {s \in 1..n :
                /\ l[s] = "/"
                /\ \E c \in (s + 2)..(n - 1) :
                      /\ l[c] = ","
                      /\ \A i \in (s + 1)..(c - 1) : l[i] \notin {" ", TAB}
                      /\ \A i \in (c + 1)..n : l[i] \in Digits}
    IN IF S = {} THEN l ELSE SubSeq(l, Max(S) + 1, n)

\* The places of the "/" of the xref pattern when its first group ends at e.
xref_slash(l, e) ==
    {s \in (e + 3)..(Len(l) - 3) :
        /\ l[s] = "/"
        /\ \A i \in (e + 1)..(s - 1) : l[i] # " "
        /\ l[s + 1] # " "}

\* re.sub(r'(.*\d+ )([^ ]+[^ ]+)/([^ ].+.+$)', r'\1\3', l, 1)
sub_xref(l) ==
    LET n == Len(l)
        E == {e \in 2..n :
                l[e] = " " /\ l[e - 1] \in Digits /\ xref_slash(l, e) # {}}
    IN IF E = {} THEN l
       ELSE SubSeq(l, 1, Max(E)) \o SubSeq(l, Max(xref_slash(l, Max(E))) + 1, n)

\* "path": " as the json pattern starts with.
json_key == <<Quote, "path", Quote, ": ", Quote>>

\* The places of the last "/" of the path when the key starts at i.
json_slash(l, i) ==
    {s \in (i + 6)..(Len(l) - 2) :
        /\ l[s] = "/"
        /\ \A j \in (i + 5)..(s - 1) : l[j] # Quote
        /\ \E t \in (s + 2)..Len(l) :
              /\ l[t] = Quote
              /\ \A j \in (s + 1)..(t - 1) : l[j] \notin {"/", Quote}}

\* re.sub(r'("path": )"[^"]+/([^/"]+)"', r'\1"\2"', l, 1): the first place in
\* the line where the pattern matches.
sub_json(l) ==
    LET n == Len(l)
        I == {i \in 1..(n - 4) :
                SubSeq(l, i, i + 4) = json_key /\ json_slash(l, i) # {}}
    IN IF I = {} THEN l
       ELSE SubSeq(l, 1, Min(I) + 4) \o SubSeq(l, Max(json_slash(l, Min(I))) + 1, n)

\* filters_internal[output_type] of basename_filter applied to a line, as
\* run_filter does: the first match is replaced.
filters_internal(output_type, l) ==
    CASE output_type = "ctags" -> sub_ctags(l)
      [] output_type = "etags" -> sub_etags(l)
      [] output_type = "xref" -> sub_xref(l)
      [] output_type = "json" -> sub_json(l)

\* The pieces the lines drawn for an output type are put together from.
Pieces(output_type) ==
    CASE output_type = "ctags" -> {<<"n">>, <<TAB>>, <<"/">>}
      [] output_type = "etags" -> {<<"a">>, <<"/">>, <<",", "1">>}
      [] output_type = "xref" -> {<<"1", " ">>, <<"a", "a", "/">>, <<"a", "a", "a">>}
      [] output_type = "json" -> {json_key, <<"a", "/">>, <<"a", Quote>>}

RECURSIVE Concat(_)
Concat(ps) == IF ps = <<>> THEN <<>> ELSE Head(ps) \o Concat(Tail(ps))

Lines(output_type) == {Concat(ps) : ps \in SeqsUpTo(Pieces(output_type), MaxPieces)}

\* The loop of run_filter, with no anon_filters: a line of finput is read,
\* the base filter applied to it and the result written to foutput.
run_filter_line ==
    /\ base_filter # "-"
    /\ Len(filtered) < MaxLines
    /\ \E l \in Lines(base_filter) :
          filtered' = Append(filtered, filters_internal(base_filter, l))
    /\ UNCHANGED <<config, tmain, base_filter, main_pc, cat, mi, q, unfinished, wpc, witem,
                   wl, procs, L, calls, tracebacks, exit_status>>

\* run_filter on a raw output of any of the four output types.
FilterInit ==
    /\ RunInit({1}, {0}, {FALSE}, {<<>>}, {{}}, {[c \in Cats |-> <<>>]})
    /\ base_filter \in OutputTypes \ {"none"}
    /\ filtered = <<>>
    /\ ffeatures = NoFile
    /\ TmainIdle

FilterSpec == FilterInit /\ [][run_filter_line]_vars

----------------------------------------------------------------------------
\* What the properties below speak of.

Ids == {<<CategoryNames[c], n>> : c \in Cats, n \in Names}

\* The calls of run_tcase for the case id that the unit filter lets through.
Selected(id) ==
    {i \in DOMAIN calls :
        Id(calls[i]) = id /\ check_units(calls[i].name, calls[i].category)}

\* How many of them raised.
Raised(id) == Cardinality({i \in DOMAIN tracebacks : Id(tracebacks[i]) = id})

\* How often id is recorded in the lists ks.
RECURSIVE Records(_, _)
Records(id, ks) ==
    IF ks = {} THEN 0
    ELSE LET k == CHOOSE x \in ks : TRUE
         IN Count(L[k], id) + Records(id, ks \ {k})

\* run_tcase has returned in worker w, which has not taken the next item:
\* its locals are those of the call.
Finished(w) == wpc[w] = "get" /\ wl[w].rv \in {"True", "False"}

Recorded(w, k) == InSeq(L[k], Id(witem[w]))

\* The case of worker w is the only one of its identifier handled so far.
Solo(w) == Cardinality({i \in DOMAIN calls : Id(calls[i]) = Id(witem[w])}) = 1

\* The main execution exited 0 and the comparison found no difference.
Matched(w) == wl[w].cmp # "-" /\ wl[w].ret = 0

\* The main execution exited with a non-zero code.
FailedExit(w) == wl[w].cmp = "-" /\ wl[w].ret \notin {-1, 0}

\* The comparison found a difference.
Mismatched(w) == wl[w].cmp = "diff" /\ wl[w].ret # 0

----------------------------------------------------------------------------
C2_FixedNotPassed ==
    \A w \in Workers :
        Finished(w) /\ witem[w].tclass = "b" =>
            /\ Matched(w) => Recorded(w, "L_FIXED") /\ ~Recorded(w, "L_PASSED")
            /\ FailedExit(w) \/ Mismatched(w) => Recorded(w, "L_KNOWN_BUGS")

\* C2 amended: a known-bug case that exits 0 and matches its expected file
\* is recorded as fixed and also as passed; with a mismatch, or with a
\* non-zero exit other than the valgrind exit code under --with-valgrind, it
\* is recorded as a known bug, and neither as fixed nor as passed.
C2_FixedAndPassed ==
    \A w \in Workers :
        Finished(w) /\ witem[w].tclass = "b" =>
            /\ Matched(w) =>
                  /\ Recorded(w, "L_FIXED") /\ Recorded(w, "L_PASSED")
                  /\ Solo(w) => ~Recorded(w, "L_KNOWN_BUGS")
            /\ \/ Mismatched(w)
               \/ FailedExit(w) /\ ~(WITH_VALGRIND /\ wl[w].ret = _VALGRIND_EXIT)
               => /\ Recorded(w, "L_KNOWN_BUGS")
                  /\ Solo(w) => ~Recorded(w, "L_FIXED") /\ ~Recorded(w, "L_PASSED")

C2_Witness ==
    \E w \in Workers :
        /\ Finished(w) /\ witem[w].tclass = "b" /\ Matched(w)
        /\ Recorded(w, "L_FIXED") /\ Recorded(w, "L_PASSED")

\* C3 as stated: with no deadline, every infinite-loop-risk case that
\* run_tcase handles ends as skipped for the infinite loop, whatever its
\* features file, languages file and args.ctags are.
C3_AlwaysSkippedILoop ==
    \A w \in Workers :
        /\ Finished(w) /\ witem[w].tclass = "i" /\ WITH_TIMEOUT = 0
        /\ check_units(witem[w].name, witem[w].category)
        => Recorded(w, "L_SKIPPED_BY_ILOOP")

\* C3 amended: with no deadline, every infinite-loop-risk case that passes
\* the unit filter, the feature gate and the language gate ends as skipped
\* for the infinite loop, whatever its args.ctags is, and its main execution
\* is not started.
C3_SkippedILoopAfterGates ==
    \A w \in Workers :
        /\ Finished(w) /\ witem[w].tclass = "i" /\ WITH_TIMEOUT = 0
        /\ check_units(witem[w].name, witem[w].category)
        /\ wl[w].feat = "ok" /\ wl[w].lang = "ok"
        => /\ Recorded(w, "L_SKIPPED_BY_ILOOP")
           /\ Solo(w) => Records(Id(witem[w]), ResultLists) = 1
           /\ wl[w].ret = -1 /\ wl[w].rv = "False"

C3_Witness ==
    \E w \in Workers :
        /\ Finished(w) /\ witem[w].tclass = "i" /\ WITH_TIMEOUT = 0
        /\ wl[w].feat = "ok" /\ wl[w].lang = "ok" /\ wl[w].broken
        /\ Recorded(w, "L_SKIPPED_BY_ILOOP")

\* The threads of the pools that have started and not ended.
LiveWorkers == {w \in Workers : wpc[w] \notin {"unborn", "stopped"}}

\* C4: at no time do more than NUM_WORKER_THREADS subprocesses of the pool
\* run, no worker has two in flight, and no more than NUM_WORKER_THREADS
\* workers live, the pools of consecutive categories included.
C4_AtMostWSubprocesses ==
    /\ Cardinality(procs) <= NUM_WORKER_THREADS
    /\ Cardinality(LiveWorkers) <= NUM_WORKER_THREADS
    /\ \A p1, p2 \in procs : p1[1] = p2[1] => p1 = p2
    /\ \A p \in procs : p[1] \in LiveWorkers /\ wpc[p[1]] = p[2]

C4_Witness ==
    /\ cat = 2
    /\ NUM_WORKER_THREADS = 2
    /\ Cardinality(procs) = 2

\* C5: when the process exits after an interrupt, no subprocess started by a
\* worker is still running.
C5_NoOrphanAtExit == main_pc = "exited" => procs = {}

\* The main thread is in the except clause of join_workers.
InHandler == main_pc \in {"drain", "int_stop", "int_join", "int_exit"}

\* C6: once join_workers has caught the interrupt, the process eventually
\* exits with a non-zero status, whether or not the workers stop.
C6_InterruptLeadsToExit ==
    InHandler ~> (main_pc = "exited" /\ exit_status # 0)

C6_Witness ==
    /\ main_pc = "exited"
    /\ exit_status = 1
    /\ procs # {}
    /\ \E w \in Pool(cat) : wpc[w] \in Kinds

\* C7: once join_workers has caught the interrupt, no worker starts on a
\* task: func is called for no further item.
C7_NoTaskStartsAfterInterrupt == [][InHandler => calls' = calls]_vars

\* The items of the sequence s that are not the sentinel.
Tasks(s) == {i \in DOMAIN s : s[i] # None}

\* C8: no task is handled twice, and when q.join() has returned in a run
\* that is not cancelled, every task put on the queue was handled once, the
\* queue holds no task and no worker of the pool is inside func.
C8_EveryTaskOnce ==
    /\ \A i, j \in DOMAIN calls : calls[i] = calls[j] => i = j
    /\ main_pc \in {"stop", "jointhreads"} =>
          /\ \A k \in DOMAIN tree[cat] : Count(calls, Item(cat, tree[cat][k])) = 1
          /\ Tasks(q[cat]) = {}
          /\ \A w \in Pool(cat) : wpc[w] \in {"get", "stopped"}

C8_Witness ==
    /\ main_pc = "stop"
    /\ NUM_WORKER_THREADS = 2
    /\ Len(tree[cat]) = 2
    /\ \A w \in Pool(cat) : Finished(w)

\* The lists that make action_run fail.
FailureLists == {"L_FAILED_BY_STATUS", "L_FAILED_BY_DIFF", "L_FAILED_BY_TIMEED_OUT",
                 "L_BROKEN_ARGS_CTAGS"}

\* C9: the run command returns 1 exactly when a case is recorded as failed
\* by status, failed by diff, timed out or broken args, and 0 otherwise.
C9_VerdictIffFailure ==
    main_pc = "done" =>
        /\ exit_status \in {0, 1}
        /\ exit_status = 1 <=> \E k \in FailureLists : L[k] # <<>>

C9_Witness ==
    /\ main_pc = "done"
    /\ exit_status = 1
    /\ L["L_BROKEN_ARGS_CTAGS"] # <<>>
    /\ \A k \in FailureLists \ {"L_BROKEN_ARGS_CTAGS"} : L[k] = <<>>

\* C10: the run command exits with 0 exactly when every case passed or was
\* tolerated: none failed, timed out, had broken args, had a valgrind error
\* or raised.
C10_ExitZeroIffAllTolerated ==
    main_pc = "done" =>
        (exit_status = 0 <=>
            /\ \A k \in FailureLists \cup {"L_VALGRIND"} : L[k] = <<>>
            /\ tracebacks = <<>>)

\* The lists the case of worker w is recorded in.
Outcome(w) == {k \in ResultLists : Recorded(w, k)}

\* The main execution of the case of worker w was started.
Executed(w) ==
    \/ wpc[w] \in {"exec", "anon", "extfilter", "diff"}
    \/ wl[w].ret # -1
    \/ wl[w].timedout

\* C11: the gates of run_tcase are decided in the order unit filter, feature
\* requirement, language requirement, infinite loop without deadline, broken
\* args.ctags; a case is recorded under the first gate it fails and under
\* nothing else, and its main execution is not started.
C11_FirstFailingGateWins ==
    \A w \in Workers :
        witem[w] # None =>
            LET selected == check_units(witem[w].name, witem[w].category)
                iloop == WITH_TIMEOUT = 0 /\ witem[w].tclass = "i"
            IN /\ Executed(w) =>
                     /\ selected /\ wl[w].feat = "ok" /\ wl[w].lang = "ok"
                     /\ ~iloop /\ ~wl[w].broken
               /\ Finished(w) /\ Solo(w) =>
                     IF ~selected THEN Outcome(w) = {}
                     ELSE IF wl[w].feat = "fail"
                     THEN Outcome(w) = {"L_SKIPPED_BY_FEATURES"}
                     ELSE IF wl[w].lang = "fail"
                     THEN Outcome(w) = {"L_SKIPPED_BY_LANGUAGES"}
                     ELSE IF iloop THEN Outcome(w) = {"L_SKIPPED_BY_ILOOP"}
                     ELSE IF wl[w].broken THEN Outcome(w) = {"L_BROKEN_ARGS_CTAGS"}
                     ELSE Executed(w)

C11_Witness ==
    \E w \in Workers :
        /\ Finished(w) /\ Solo(w)
        /\ wl[w].feat = "fail" /\ wl[w].broken
        /\ Outcome(w) = {"L_SKIPPED_BY_FEATURES"}

\* The main execution of the case of worker w exited with the valgrind exit
\* code.
ValgrindExit(w) == FailedExit(w) /\ wl[w].ret = _VALGRIND_EXIT

\* C12 as stated: whenever the main execution exits with 58 and the class is
\* not v, the case is recorded as a valgrind error.
C12_ValgrindExitAlways ==
    \A w \in Workers :
        Finished(w) /\ ValgrindExit(w) /\ witem[w].tclass # "v" =>
            Recorded(w, "L_VALGRIND")

\* C12 amended: under --with-valgrind, whenever the main execution exits with
\* 58 and the class is not v, the case is recorded as a valgrind error and
\* as nothing else, before the known-bug and the exit-status branches;
\* without --with-valgrind, 58 is a non-zero exit code as any other.
C12_ValgrindExitUnderValgrind ==
    \A w \in Workers :
        Finished(w) /\ ValgrindExit(w) /\ witem[w].tclass # "v" =>
            IF WITH_VALGRIND
            THEN /\ Recorded(w, "L_VALGRIND") /\ wl[w].rv = "False"
                 /\ Solo(w) => Outcome(w) = {"L_VALGRIND"}
            ELSE Solo(w) =>
                    Outcome(w) = {IF witem[w].tclass = "b" THEN "L_KNOWN_BUGS"
                                  ELSE "L_FAILED_BY_STATUS"}

C12_Witness ==
    \E w \in Workers :
        /\ Finished(w) /\ Solo(w) /\ ValgrindExit(w)
        /\ WITH_VALGRIND /\ witem[w].tclass = "b"
        /\ Outcome(w) = {"L_VALGRIND"}

\* C13: a case whose main execution exceeds the deadline is recorded as timed
\* out and as nothing else, whatever its class; run_tcase returns at once,
\* with no filter and no comparison.
C13_TimedOutOnly ==
    \A w \in Workers :
        wl[w].timedout =>
            /\ wpc[w] = "get" /\ wl[w].rv = "False"
            /\ wl[w].cmp = "-" /\ wl[w].ret = -1
            /\ Recorded(w, "L_FAILED_BY_TIMEED_OUT")
            /\ Solo(w) => Outcome(w) = {"L_FAILED_BY_TIMEED_OUT"}

C13_Witness ==
    \E w \in Workers :
        /\ wl[w].timedout /\ Solo(w) /\ witem[w].tclass = "b"
        /\ Outcome(w) = {"L_FAILED_BY_TIMEED_OUT"}

\* C14 as stated: a known-bug case is never recorded as failed by status or
\* by diff; a non-zero exit code or a difference from the expected file is
\* recorded as a known bug and run_tcase returns True.
C14_KnownBugAlwaysTolerated ==
    \A w \in Workers :
        Finished(w) /\ witem[w].tclass = "b" =>
            /\ Solo(w) => /\ ~Recorded(w, "L_FAILED_BY_STATUS")
                          /\ ~Recorded(w, "L_FAILED_BY_DIFF")
            /\ FailedExit(w) \/ Mismatched(w) =>
                  Recorded(w, "L_KNOWN_BUGS") /\ wl[w].rv = "True"

\* C14 amended: a known-bug case is never recorded as failed by status or by
\* diff; a difference from the expected file, or a non-zero exit code other
\* than 58 under --with-valgrind, is recorded as a known bug and run_tcase
\* returns True; exit code 58 under --with-valgrind is recorded as a valgrind
\* error and run_tcase returns False.
C14_KnownBugToleratedButValgrind ==
    \A w \in Workers :
        Finished(w) /\ witem[w].tclass = "b" =>
            /\ Solo(w) => /\ ~Recorded(w, "L_FAILED_BY_STATUS")
                          /\ ~Recorded(w, "L_FAILED_BY_DIFF")
            /\ FailedExit(w) \/ Mismatched(w) =>
                  IF WITH_VALGRIND /\ ValgrindExit(w)
                  THEN Recorded(w, "L_VALGRIND") /\ wl[w].rv = "False"
                  ELSE /\ Recorded(w, "L_KNOWN_BUGS") /\ wl[w].rv = "True"
                       /\ Solo(w) => Outcome(w) = {"L_KNOWN_BUGS"}

C14_Witness ==
    \E w \in Workers :
        /\ Finished(w) /\ Solo(w) /\ witem[w].tclass = "b" /\ Mismatched(w)
        /\ Outcome(w) = {"L_KNOWN_BUGS"} /\ wl[w].rv = "True"

\* The case of worker w has no expected file and its main execution exited
\* with 0 within the deadline.
PassedUncompared(w) == Finished(w) /\ wl[w].otype = "none" /\ wl[w].ret = 0

\* C15 as stated: a case without expected file that passes the gates and
\* exits 0 is recorded as passed with no filter and no comparison, and as
\* fixed exactly when its class is b or i.
C15_UncomparedFixedForBugOrLoop ==
    \A w \in Workers :
        /\ wl[w].otype = "none" => wpc[w] \notin {"anon", "extfilter", "diff"}
        /\ PassedUncompared(w) =>
              /\ Recorded(w, "L_PASSED") /\ wl[w].cmp = "-" /\ wl[w].rv = "True"
              /\ Solo(w) => (Recorded(w, "L_FIXED") <=> witem[w].tclass \in {"b", "i"})

\* C15 amended: a case without expected file that passes the gates and exits
\* 0 is recorded as passed with no filter and no comparison, and as fixed
\* exactly when its class is b or i, or its class is v and the run is under
\* --with-valgrind.
C15_UncomparedFixedAlsoForValgrind ==
    \A w \in Workers :
        /\ wl[w].otype = "none" => wpc[w] \notin {"anon", "extfilter", "diff"}
        /\ PassedUncompared(w) =>
              /\ Recorded(w, "L_PASSED") /\ wl[w].cmp = "-" /\ wl[w].rv = "True"
              /\ Solo(w) =>
                    /\ Outcome(w) \subseteq {"L_PASSED", "L_FIXED"}
                    /\ Recorded(w, "L_FIXED") <=>
                          \/ witem[w].tclass \in {"b", "i"}
                          \/ WITH_VALGRIND /\ witem[w].tclass = "v"

C15_Witness ==
    \E w \in Workers :
        /\ PassedUncompared(w) /\ Solo(w) /\ witem[w].tclass = "i"
        /\ Outcome(w) = {"L_PASSED", "L_FIXED"}

\* run_tcase was called for the case of worker w and has returned or raised.
Called(w) == wpc[w] = "get" /\ wl[w].rv # "-"

\* How the main execution of the case of worker w ended: -2 for the
\* deadline, -1 if it was not started, else its exit code.
ExecResult(w) ==
    IF wl[w].timedout THEN -2
    ELSE IF wl[w].cmp # "-" THEN 0
    ELSE wl[w].ret

\* What the comparison with the expected file gave, if it was made.
DiffResult(w) ==
    IF wl[w].cmp = "-" THEN "none"
    ELSE IF wl[w].ret = 0 THEN "equal"
    ELSE "differ"

\* Two calls that agree on the class, the execution result, the diff result
\* and the results of the feature and language gates.
SameInputs(w1, w2) ==
    /\ witem[w1].tclass = witem[w2].tclass
    /\ ExecResult(w1) = ExecResult(w2)
    /\ DiffResult(w1) = DiffResult(w2)
    /\ wl[w1].feat = wl[w2].feat
    /\ wl[w1].lang = wl[w2].lang

Joined == main_pc \in {"stop", "jointhreads", "run_dir", "done"}

Rank(t) ==
    LET id == IF Len(t) = 1 THEN <<_DEFAULT_CATEGORY, t[1]>> ELSE t
        c == CHOOSE x \in Cats : CategoryNames[x] = id[1]
    IN 2 * c + (IF id[2] = "n1" THEN 0 ELSE 1)

\* C18: when the run has ended, the summary lists the cases of each kind
\* sorted by category/name, whatever the order the workers finished in.
C18_SummarySorted ==
    main_pc = "done" =>
        \A k \in ListedKinds :
            \A i, j \in DOMAIN run_summary.listed[k] :
                i < j => Rank(run_summary.listed[k][i]) <= Rank(run_summary.listed[k][j])

\* C20: the feature gate fails a case only for a requirement that is not
\* satisfied: a requirement "!X" when X is in the feature list of the
\* subject, a requirement "X" when X is not in it.
C20_NegatedRequirement ==
    \A w \in Workers :
        Finished(w) /\ wl[w].feat = "fail" =>
            IF wl[w].expected.neg
            THEN wl[w].expected.name \in _FEATURE_LIST
            ELSE wl[w].expected.name \notin _FEATURE_LIST

\* C19: the basename filter is idempotent: a line run_filter has written is
\* left as it is by the filter of its output type.
C19_BasenameFilterIdempotent ==
    \A i \in DOMAIN filtered :
        filters_internal(base_filter, filtered[i]) = filtered[i]


\* Lines 645-653: the build directory of a task is that of the directory of
\* its input file, category/name.tclass under the build base.
build_tcase_dir(item) == <<item.category, item.name, item.tclass>>

\* run_tcase is in progress in worker w.
InProgress(w) == wpc[w] \in Kinds

\* C21: a build directory is owned by one worker at a time: no two tasks in
\* progress use the same build directory, and no queue holds two tasks of
\* one case directory.
C21_BuildDirExclusive ==
    /\ \A w1, w2 \in Workers :
          w1 # w2 /\ InProgress(w1) /\ InProgress(w2) =>
              build_tcase_dir(witem[w1]) # build_tcase_dir(witem[w2])
    /\ \A c \in Cats : \A i, j \in DOMAIN q[c] :
          i # j /\ q[c][i] # None /\ q[c][j] # None =>
              build_tcase_dir(q[c][i]) # build_tcase_dir(q[c][j])


\* The tasks of the pool of category c that are not done: those the queue
\* holds and those its workers are handling.
NotDone(c) == Len(q[c]) + Cardinality({w \in Pool(c) : InProgress(w)})

\* C22: an error raised while a case is handled does not abort the run: the
\* worker that hit it has marked the task done and waits for the next one,
\* every task put on the queue is handled before q.join() returns, and once
\* an error was raised the run still comes to its end.
C22_ErrorNeverAborts ==
    /\ [](\A w \in Workers : wl[w].rv = "raised" => wpc[w] = "get")
    /\ [](main_pc \in {"put", "join"} => unfinished[cat] = NotDone(cat))
    /\ [](tracebacks # <<>> /\ main_pc \in {"stop", "jointhreads"} =>
             \A k \in DOMAIN tree[cat] : InSeq(calls, Item(cat, tree[cat][k])))
    /\ (tracebacks # <<>> ~> main_pc = "done")

C22_Witness ==
    /\ main_pc = "done"
    /\ NUM_WORKER_THREADS = 1
    /\ Len(calls) = 2
    /\ tracebacks = <<calls[1]>>
    /\ Count(L["L_PASSED"], Id(calls[2])) = 1


\* The case of worker w is of the infinite-loop-risk class, passes the unit
\* filter and is handled with no deadline.
LoopRisk(w) ==
    /\ witem[w] # None /\ witem[w].tclass = "i" /\ WITH_TIMEOUT = 0
    /\ check_units(witem[w].name, witem[w].category)

\* C23 as stated: for an infinite-loop-risk case handled with no deadline
\* the subject is not invoked at all: run_tcase waits for no subprocess of
\* the case.
C23_SubjectNeverInvoked ==
    \A w \in Workers : LoopRisk(w) => ~InProgress(w)

\* C23 amended: for an infinite-loop-risk case handled with no deadline the
\* main execution of the subject is never started, nor a filter or diff
\* after it; the subject is invoked before the gates only: the dry run of
\* args.ctags, the --print-language probe, which has ended whenever run_tcase
\* returns, and --list-languages.
C23_MainExecutionNeverStarted ==
    \A w \in Workers :
        LoopRisk(w) =>
            /\ ~Executed(w)
            /\ InProgress(w) => wpc[w] \in {"dryrun", "probe", "listlangs"}
            /\ Finished(w) => wl[w].feat # "-"
            /\ Finished(w) /\ Solo(w) =>
                  Outcome(w) \subseteq {"L_SKIPPED_BY_FEATURES", "L_SKIPPED_BY_LANGUAGES",
                                        "L_SKIPPED_BY_ILOOP"}

C23_Witness ==
    \E w \in Workers :
        /\ LoopRisk(w) /\ Finished(w) /\ Solo(w)
        /\ ~wl[w].broken /\ wl[w].feat = "ok" /\ wl[w].lang = "ok"
        /\ Outcome(w) = {"L_SKIPPED_BY_ILOOP"}


\* C24: a case recorded as fixed succeeded: it is not recorded as failed by
\* status, failed by diff, timed out, valgrind error or known bug as well.
C24_FixedOnlyOnSuccess ==
    \A w \in Workers :
        Finished(w) /\ Solo(w) /\ Recorded(w, "L_FIXED") =>
            Outcome(w) \cap {"L_FAILED_BY_STATUS", "L_FAILED_BY_DIFF",
                             "L_FAILED_BY_TIMEED_OUT", "L_VALGRIND",
                             "L_KNOWN_BUGS"} = {}


\* The case of worker w is of a normal class and has an expected file, and
\* valgrind is not used.
NormalCase(w) ==
    /\ witem[w] # None /\ witem[w].tclass \in {"d", "t"}
    /\ wl[w].otype \notin {"-", "none"}
    /\ ~WITH_VALGRIND

\* C25: without valgrind, for a case of class d or t with an expected file
\* that passes the gates and ends within the deadline: a non-zero exit code
\* gives failed-by-status and nothing else, with no filter and no comparison;
\* exit code 0 and output equal to the expected file gives passed and nothing
\* else; exit code 0 and a difference gives failed-by-diff and nothing else.
C25_NormalCaseOutcome ==
    \A w \in Workers :
        NormalCase(w) =>
            /\ wpc[w] \in {"anon", "extfilter", "diff"} => wl[w].ret = 0
            /\ Finished(w) /\ FailedExit(w) =>
                  /\ Recorded(w, "L_FAILED_BY_STATUS") /\ wl[w].rv = "False"
                  /\ Solo(w) => Outcome(w) = {"L_FAILED_BY_STATUS"}
            /\ Finished(w) /\ Matched(w) =>
                  /\ Recorded(w, "L_PASSED") /\ wl[w].rv = "True"
                  /\ Solo(w) => Outcome(w) = {"L_PASSED"}
            /\ Finished(w) /\ Mismatched(w) =>
                  /\ Recorded(w, "L_FAILED_BY_DIFF") /\ wl[w].rv = "False"
                  /\ Solo(w) => Outcome(w) = {"L_FAILED_BY_DIFF"}

C25_Witness ==
    \E w \in Workers :
        /\ NormalCase(w) /\ Finished(w) /\ Solo(w)
        /\ witem[w].tclass = "t" /\ Mismatched(w)
        /\ Outcome(w) = {"L_FAILED_BY_DIFF"}


\* The requirement req of a features file is not satisfied by the subject.
Unmet(req) ==
    /\ req # EmptyLine
    /\ IF req.neg THEN req.name \in _FEATURE_LIST ELSE req.name \notin _FEATURE_LIST

\* C26: whatever expected file the case has, if its features file holds a
\* requirement that the subject does not satisfy, the main execution is not
\* started and the case is recorded as skipped for the feature.
C26_EveryRequirementChecked ==
    \A w \in Workers :
        /\ witem[w] # None
        /\ ffeatures.isfile
        /\ \E i \in DOMAIN ffeatures.lines : Unmet(ffeatures.lines[i])
        => /\ ~Executed(w)
           /\ Finished(w) => Recorded(w, "L_SKIPPED_BY_FEATURES")


\* tmain_sub was called for the test n.
Handled(n) == \E i \in DOMAIN calls : calls[i].name = n

\* The aspect a of the test n has an expected file, run.sh did not end with
\* the code for ignoring the test, and the actual result is missing or
\* differs: tmain_sub ended before writing the actual files, or run.sh left
\* no tags file, or the files are not equal.
AspectFails(n, a) ==
    /\ a \in expected_txt(n)
    /\ tl[n].rc \notin {-1, CODE_FOR_IGNORING_THIS_TMAIN_TEST}
    /\ tl[n].rv = "raised" \/ ~tmain_compare(tl[n], a)

\* C27: the tmain command returns 1 exactly when a handled test has an
\* aspect with an expected file whose actual result is missing or differs;
\* an aspect without expected file is never recorded as failed, and nothing
\* is recorded for a test whose run.sh ends with 77.
C27_TmainFailsIffAspectFails ==
    main_pc = "done" =>
        /\ exit_status \in {0, 1}
        /\ exit_status = 1 <=>
              \E n \in Names : Handled(n) /\ \E i \in DOMAIN Aspects : AspectFails(n, Aspects[i])
        /\ \A k \in DOMAIN TMAIN_FAILED :
              /\ TMAIN_FAILED[k][2] \in expected_txt(TMAIN_FAILED[k][1])
              /\ tl[TMAIN_FAILED[k][1]].rc # CODE_FOR_IGNORING_THIS_TMAIN_TEST


\* The --units entry u names the case of item: "category/name" names the
\* case of that name in that category, "name" the cases of that name.
EntryNames(u, item) ==
    IF Len(u) = 2 THEN u = <<item.category, item.name>> ELSE u = <<item.name>>

\* --units is given and none of its entries names the case of item.
Excluded(item) == UNITS # <<>> /\ \A k \in DOMAIN UNITS : ~EntryNames(UNITS[k], item)

\* C28: for a case the unit filter excludes run_tcase returns False at once:
\* it waits for no subprocess, does not get to the point where the working
\* directory is prepared and the gates are decided, and records the case in
\* no list.  A case that an entry names, by "category/name" or by "name" in
\* any category, is not stopped by the filter.
C28_ExcludedCaseNoEffect ==
    \A w \in Workers :
        witem[w] # None =>
            IF Excluded(witem[w])
            THEN /\ wpc[w] = "get" /\ wl[w].rv = "False"
                 /\ wl[w].feat = "-" /\ ~Executed(w)
                 /\ \A p \in procs : p[1] # w
                 /\ Solo(w) => Outcome(w) = {}
            ELSE Finished(w) => wl[w].feat # "-"

C28_Witness ==
    \E w \in Workers :
        /\ UNITS = <<<<"ROOT", "n1">>>>
        /\ witem[w] # None /\ witem[w].category = "sub.r" /\ witem[w].name = "n1"
        /\ Finished(w) /\ wl[w].rv = "False" /\ wl[w].feat = "-"
        /\ main_pc = "stop"
        /\ \A k \in ResultLists : L[k] = <<>>


\* The workers of the pool of category c that have ended.
Stopped(c) == {w \in Pool(c) : wpc[w] = "stopped"}

\* C29: in a run that no interrupt cancels and whose subprocesses all end,
\* join_workers returns for every category it is called for.  The stop
\* sentinels are put only when every task is done; with those the workers
\* that have ended took, they are never more than NUM_WORKER_THREADS, and
\* exactly as many once the last is put; when join_workers has returned every
\* worker of the pool has ended and the queue is empty.
C29_JoinWorkersReturns ==
    /\ \A c \in Cats :
          (main_pc = "join" /\ cat = c) ~> (main_pc = "run_dir" /\ cat = c + 1)
    /\ [](\A c \in Cats :
             /\ Count(q[c], None) + Cardinality(Stopped(c)) <= NUM_WORKER_THREADS
             /\ Count(q[c], None) + Cardinality(Stopped(c)) > 0 =>
                   /\ Tasks(q[c]) = {}
                   /\ \A w \in Pool(c) : ~InProgress(w)
                   /\ \A k \in DOMAIN tree[c] : Count(calls, Item(c, tree[c][k])) = 1)
    /\ [](main_pc = "jointhreads" =>
             Count(q[cat], None) + Cardinality(Stopped(cat)) = NUM_WORKER_THREADS)
    /\ [](\A c \in Cats :
             c < cat /\ (\E w \in Pool(c) : wpc[w] # "unborn") =>
                 /\ Stopped(c) = Pool(c)
                 /\ q[c] = <<>>)

C29_Witness ==
    /\ main_pc = "done"
    /\ NUM_WORKER_THREADS = 2
    /\ Len(calls) = 2
    /\ \A c \in Cats : Stopped(c) = Pool(c) /\ q[c] = <<>>

====
